---- MODULE Spec2Model ----
(***************************************************************************)
(* Model of mrichman/transcribe-monitor-cdk:                               *)
(*   - src/transcribe_job_starter.py: start_jobs and start_job_with_retry  *)
(*     (batch driver and retrying submission of call analytics jobs);      *)
(*   - src/lambda/transcribe_concurrency_monitor.py: lambda_handler        *)
(*     (paginated count of IN_PROGRESS jobs, published as one metric).     *)
(* The two programs share no state; each has its own specification.        *)
(***************************************************************************)
EXTENDS Integers, Sequences, FiniteSets, TLC

VARIABLES
    \* ---- transcribe_job_starter.py ----
    config,           \* parsed arguments: count, max_retries, base_delay, max_delay
    pc,               \* position in start_jobs
    i,                \* loop variable of start_jobs
    successful_jobs,
    failed_jobs,
    delays,           \* number of time.sleep(config.delay) calls made
    jpc,              \* position in start_job_with_retry
    attempt,          \* loop variable of start_job_with_retry
    job_name,
    uuids,            \* number of uuid4() draws so far
    success,          \* return value of the current/last start_job_with_retry
    outcomes,         \* history: outcomes of the submissions of this invocation
    submitted,        \* history: job names submitted by this invocation
    sleeps,           \* history: backoff waits slept by this invocation
    calls,            \* history: number of start_job_with_retry invocations
    returns,          \* history: return value of each finished invocation
    exit_code,        \* exit status of the process, -1 while it runs
    exit_cause,       \* what ended the process
    \* ---- transcribe_concurrency_monitor.py ----
    m_pc,             \* position in lambda_handler
    concurrent_jobs,
    next_token,
    requests,         \* history: NextToken parameter of each listing request
    responses,        \* history: what each listing request produced
    published,        \* history: Value of each put_metric_data call
    m_result          \* how lambda_handler ended

starter_vars == <<config, pc, i, successful_jobs, failed_jobs, delays, jpc,
                  attempt, job_name, uuids, success, outcomes, submitted, sleeps,
                  calls, returns, exit_code, exit_cause>>
monitor_vars == <<m_pc, concurrent_jobs, next_token, requests, responses,
                  published, m_result>>
vars == <<starter_vars, monitor_vars>>

\* ------------------------------------------------------------------ bounds
MaxRetriesBound == 2      \* --max-retries ranges over -1..MaxRetriesBound
LongRetries == 3          \* --max-retries of the single long-running job
MaxCount == 2             \* --count ranges over 0..MaxCount
MaxPages == 3             \* listing requests per lambda invocation
AttemptBound == 4         \* attempt arguments of the backoff function: 0..AttemptBound
BaseDelayBound == 6       \* base_delay arguments, in ticks: 1..BaseDelayBound
MaxDelayBound == 10       \* max_delay arguments, in ticks: 1..MaxDelayBound

\* --------------------------------------------------------- small utilities
Min(a, b) == IF a < b THEN a ELSE b

Last(s) == s[Len(s)]

RECURSIVE Pow2(_)
Pow2(n) == IF n <= 0 THEN 1 ELSE 2 * Pow2(n - 1)

\* ====================================================================
\*   transcribe_job_starter.py
\* ====================================================================

\* Delays are counted in ticks of 1/4 second, so that the defaults of
\* parse_arguments are base_delay = 4 ticks (1.0s); the cap is drawn small
\* enough for the exponential to reach it within the retry bound.
BaseDelays == {4}
MaxDelays == {8}

Configs == [count: 0..MaxCount, max_retries: (-1)..MaxRetriesBound,
            base_delay: BaseDelays, max_delay: MaxDelays]

\* variant of CappedBackoff: the cap is not applied
CappedBackoff_NoCap(a, base_delay, max_delay) == base_delay * Pow2(a)

\* backoff = min(base_delay * 2**attempt, max_delay)
CappedBackoff(a, base_delay, max_delay) == Min(base_delay * Pow2(a), max_delay)

\* variant of JitterDraws: full jitter, a value between 0 and backoff
JitterDraws_Full(backoff) == 0..backoff

\* random.uniform(0, backoff * 0.25): every tick value of the interval
JitterDraws(backoff) == 0..(backoff \div 4)

\* the set of values calculate_backoff_with_jitter can return
calculate_backoff_with_jitter(a, base_delay, max_delay) ==
    LET backoff == CappedBackoff(a, base_delay, max_delay)
    IN  {backoff + jitter : jitter \in JitterDraws(backoff)}

\* f"CallAnalyticsJob-{uuid.uuid4()}": the n-th draw of uuid4
NewJobName(n) == n

\* the process at the call of start_jobs
StarterStart ==
    /\ pc = "start_jobs"
    /\ i = 0
    /\ successful_jobs = 0
    /\ failed_jobs = 0
    /\ delays = 0
    /\ jpc = "idle"
    /\ attempt = 0
    /\ job_name = 0
    /\ uuids = 0
    /\ success = "none"
    /\ outcomes = <<>>
    /\ submitted = <<>>
    /\ sleeps = <<>>
    /\ calls = 0
    /\ returns = <<>>
    /\ exit_code = -1
    /\ exit_cause = "none"

\* arguments parsed, start_jobs about to be called
StarterEntry ==
    /\ config \in Configs
    /\ StarterStart

batch_vars == <<pc, i, successful_jobs, failed_jobs, delays, calls, returns>>

exit_vars == <<exit_code, exit_cause>>

\* start_jobs, entry: counters zeroed, first step of `for i in range(count)`
StartJobs ==
    /\ pc = "start_jobs"
    /\ successful_jobs' = 0
    /\ failed_jobs' = 0
    /\ IF config.count > 0
         THEN i' = 0 /\ pc' = "call"
         ELSE i' = i /\ pc' = "completed"
    /\ UNCHANGED <<config, delays, jpc, attempt, job_name, uuids, success,
                   outcomes, submitted, sleeps, calls, returns, exit_vars>>
    /\ UNCHANGED monitor_vars

\* start_job_with_retry, entry: name drawn, first step of
\* `for attempt in range(config.max_retries + 1)`
CallStartJobWithRetry ==
    /\ pc = "call"
    /\ pc' = "in_job"
    /\ calls' = calls + 1
    /\ uuids' = uuids + 1
    /\ job_name' = NewJobName(uuids + 1)
    /\ outcomes' = <<>>
    /\ submitted' = <<>>
    /\ sleeps' = <<>>
    /\ IF config.max_retries + 1 > 0
         THEN attempt' = 0 /\ jpc' = "submit" /\ success' = "none"
         ELSE attempt' = attempt /\ jpc' = "returned" /\ success' = "False"
    /\ UNCHANGED <<config, i, successful_jobs, failed_jobs, delays, returns,
                   exit_vars>>
    /\ UNCHANGED monitor_vars

\* next step of `for attempt in range(config.max_retries + 1)`: the next
\* value, or the loop is exhausted and line 256 returns False
ForAttemptNext ==
    IF attempt + 1 < config.max_retries + 1
      THEN attempt' = attempt + 1 /\ jpc' = "submit" /\ success' = success
      ELSE attempt' = attempt /\ jpc' = "returned" /\ success' = "False"

\* the call start_call_analytics_job(CallAnalyticsJobName=job_name, ...)
\* made by this iteration, answered with outcome o
Submission(o) ==
    /\ pc = "in_job"
    /\ jpc = "submit"
    /\ outcomes' = Append(outcomes, o)
    /\ submitted' = Append(submitted, job_name)
    /\ UNCHANGED <<config, batch_vars, exit_vars>>
    /\ UNCHANGED monitor_vars

\* the submission returns a response: return True
SubmitSuccess ==
    /\ Submission("Success")
    /\ jpc' = "returned"
    /\ success' = "True"
    /\ UNCHANGED <<attempt, job_name, uuids, sleeps>>

\* variant of SubmitBadRequest: the rejection is retried like a limit error
SubmitBadRequest_Retried ==
    /\ Submission("BadRequest")
    /\ IF attempt < config.max_retries
         THEN /\ \E backoff \in calculate_backoff_with_jitter(
                        attempt, config.base_delay, config.max_delay) :
                    sleeps' = Append(sleeps, backoff)
              /\ jpc' = "backoff"
              /\ success' = success
         ELSE /\ sleeps' = sleeps
              /\ jpc' = "returned"
              /\ success' = "False"
    /\ UNCHANGED <<attempt, job_name, uuids>>

\* except BadRequestException: return False, not retried
SubmitBadRequest ==
    /\ Submission("BadRequest")
    /\ jpc' = "returned"
    /\ success' = "False"
    /\ UNCHANGED <<attempt, job_name, uuids, sleeps>>

\* variant of SubmitLimitExceeded: budget test off by one
SubmitLimitExceeded_OffByOne ==
    /\ Submission("LimitExceeded")
    /\ IF attempt <= config.max_retries
         THEN /\ \E backoff \in calculate_backoff_with_jitter(
                        attempt, config.base_delay, config.max_delay) :
                    sleeps' = Append(sleeps, backoff)
              /\ jpc' = "backoff"
              /\ success' = success
         ELSE /\ sleeps' = sleeps
              /\ jpc' = "returned"
              /\ success' = "False"
    /\ UNCHANGED <<attempt, job_name, uuids>>

\* except LimitExceededException: back off while attempt < max_retries
SubmitLimitExceeded ==
    /\ Submission("LimitExceeded")
    /\ IF attempt < config.max_retries
         THEN /\ \E backoff \in calculate_backoff_with_jitter(
                        attempt, config.base_delay, config.max_delay) :
                    sleeps' = Append(sleeps, backoff)
              /\ jpc' = "backoff"
              /\ success' = success
         ELSE /\ sleeps' = sleeps
              /\ jpc' = "returned"
              /\ success' = "False"
    /\ UNCHANGED <<attempt, job_name, uuids>>

\* variant of SubmitConflict: the next iteration reuses the name
SubmitConflict_KeepsName ==
    /\ Submission("Conflict")
    /\ uuids' = uuids + 1
    /\ job_name' = job_name
    /\ ForAttemptNext
    /\ UNCHANGED sleeps

\* variant of SubmitConflict: the retry waits like a transient error
SubmitConflict_Sleeps ==
    /\ Submission("Conflict")
    /\ uuids' = uuids + 1
    /\ job_name' = NewJobName(uuids + 1)
    /\ IF attempt < config.max_retries
         THEN /\ \E backoff \in calculate_backoff_with_jitter(
                        attempt, config.base_delay, config.max_delay) :
                    sleeps' = Append(sleeps, backoff)
              /\ jpc' = "backoff"
              /\ success' = success
              /\ attempt' = attempt
         ELSE /\ ForAttemptNext
              /\ sleeps' = sleeps

\* except ConflictException: new name, `continue`
SubmitConflict ==
    /\ Submission("Conflict")
    /\ uuids' = uuids + 1
    /\ job_name' = NewJobName(uuids + 1)
    /\ ForAttemptNext
    /\ UNCHANGED sleeps

\* variant of SubmitInternalOrUnavailable: budget test off by one
SubmitInternalOrUnavailable_OffByOne ==
    /\ \E e \in {"InternalFailure", "ServiceUnavailable"} : Submission(e)
    /\ IF attempt <= config.max_retries
         THEN /\ \E backoff \in calculate_backoff_with_jitter(
                        attempt, config.base_delay, config.max_delay) :
                    sleeps' = Append(sleeps, backoff)
              /\ jpc' = "backoff"
              /\ success' = success
         ELSE /\ sleeps' = sleeps
              /\ jpc' = "returned"
              /\ success' = "False"
    /\ UNCHANGED <<attempt, job_name, uuids>>

\* except (InternalFailureException, ServiceUnavailableException)
SubmitInternalOrUnavailable ==
    /\ \E e \in {"InternalFailure", "ServiceUnavailable"} : Submission(e)
    /\ IF attempt < config.max_retries
         THEN /\ \E backoff \in calculate_backoff_with_jitter(
                        attempt, config.base_delay, config.max_delay) :
                    sleeps' = Append(sleeps, backoff)
              /\ jpc' = "backoff"
              /\ success' = success
         ELSE /\ sleeps' = sleeps
              /\ jpc' = "returned"
              /\ success' = "False"
    /\ UNCHANGED <<attempt, job_name, uuids>>

\* variant of SubmitUnexpected: the error is not retried
SubmitUnexpected_Abandons ==
    /\ Submission("Unexpected")
    /\ jpc' = "returned"
    /\ success' = "False"
    /\ UNCHANGED <<attempt, job_name, uuids, sleeps>>

\* variant of SubmitUnexpected: budget test off by one
SubmitUnexpected_OffByOne ==
    /\ Submission("Unexpected")
    /\ IF attempt <= config.max_retries
         THEN /\ \E backoff \in calculate_backoff_with_jitter(
                        attempt, config.base_delay, config.max_delay) :
                    sleeps' = Append(sleeps, backoff)
              /\ jpc' = "backoff"
              /\ success' = success
         ELSE /\ sleeps' = sleeps
              /\ jpc' = "returned"
              /\ success' = "False"
    /\ UNCHANGED <<attempt, job_name, uuids>>

\* except Exception: any error not named above
SubmitUnexpected ==
    /\ Submission("Unexpected")
    /\ IF attempt < config.max_retries
         THEN /\ \E backoff \in calculate_backoff_with_jitter(
                        attempt, config.base_delay, config.max_delay) :
                    sleeps' = Append(sleeps, backoff)
              /\ jpc' = "backoff"
              /\ success' = success
         ELSE /\ sleeps' = sleeps
              /\ jpc' = "returned"
              /\ success' = "False"
    /\ UNCHANGED <<attempt, job_name, uuids>>

\* time.sleep(backoff) returns; the handler ends and the loop steps
BackoffElapsed ==
    /\ pc = "in_job"
    /\ jpc = "backoff"
    /\ ForAttemptNext
    /\ UNCHANGED <<config, batch_vars, exit_vars, job_name, uuids, outcomes,
                   submitted, sleeps>>
    /\ UNCHANGED monitor_vars

\* variant of JobReturned: the delay is made between jobs only, not after
\* the last one
JobReturned_NoDelayAfterLast ==
    /\ pc = "in_job"
    /\ jpc = "returned"
    /\ IF success = "True"
         THEN successful_jobs' = successful_jobs + 1 /\ failed_jobs' = failed_jobs
         ELSE failed_jobs' = failed_jobs + 1 /\ successful_jobs' = successful_jobs
    /\ returns' = Append(returns, success)
    /\ delays' = IF i = config.count - 1 THEN delays ELSE delays + 1
    /\ pc' = "delay"
    /\ jpc' = "idle"
    /\ UNCHANGED <<config, i, attempt, job_name, uuids, success, outcomes,
                   submitted, sleeps, calls, exit_vars>>
    /\ UNCHANGED monitor_vars

\* variant of JobReturned: a failed job ends the batch
JobReturned_StopsOnFailure ==
    /\ pc = "in_job"
    /\ jpc = "returned"
    /\ IF success = "True"
         THEN /\ successful_jobs' = successful_jobs + 1
              /\ failed_jobs' = failed_jobs
              /\ delays' = delays + 1
              /\ pc' = "delay"
         ELSE /\ failed_jobs' = failed_jobs + 1
              /\ successful_jobs' = successful_jobs
              /\ delays' = delays
              /\ pc' = "completed"
    /\ returns' = Append(returns, success)
    /\ jpc' = "idle"
    /\ UNCHANGED <<config, i, attempt, job_name, uuids, success, outcomes,
                   submitted, sleeps, calls, exit_vars>>
    /\ UNCHANGED monitor_vars

\* start_jobs, after the call: count the result, log, time.sleep(delay)
JobReturned ==
    /\ pc = "in_job"
    /\ jpc = "returned"
    /\ IF success = "True"
         THEN successful_jobs' = successful_jobs + 1 /\ failed_jobs' = failed_jobs
         ELSE failed_jobs' = failed_jobs + 1 /\ successful_jobs' = successful_jobs
    /\ returns' = Append(returns, success)
    /\ delays' = delays + 1
    /\ pc' = "delay"
    /\ jpc' = "idle"
    /\ UNCHANGED <<config, i, attempt, job_name, uuids, success, outcomes,
                   submitted, sleeps, calls, exit_vars>>
    /\ UNCHANGED monitor_vars

\* time.sleep(config.delay) returns; next step of `for i in range(count)`
DelayElapsed ==
    /\ pc = "delay"
    /\ IF i + 1 < config.count
         THEN i' = i + 1 /\ pc' = "call"
         ELSE i' = i /\ pc' = "completed"
    /\ UNCHANGED <<config, successful_jobs, failed_jobs, delays, jpc, attempt,
                   job_name, uuids, success, outcomes, submitted, sleeps,
                   calls, returns, exit_vars>>
    /\ UNCHANGED monitor_vars

\* boto3.client("transcribe", ...) raises at the entry of
\* start_job_with_retry, outside its try: the error escapes start_jobs and
\* `except Exception` of __main__ calls sys.exit(1)
CreateClientFails ==
    /\ pc = "call"
    /\ calls' = calls + 1
    /\ uuids' = uuids + 1
    /\ job_name' = NewJobName(uuids + 1)
    /\ outcomes' = <<>>
    /\ submitted' = <<>>
    /\ sleeps' = <<>>
    /\ pc' = "exited"
    /\ exit_code' = 1
    /\ exit_cause' = "Exception"
    /\ UNCHANGED <<config, i, successful_jobs, failed_jobs, delays, jpc,
                   attempt, success, returns>>
    /\ UNCHANGED monitor_vars

\* variant of Interrupt: an interrupt arriving during a submission is
\* caught by the retry loop like an unexpected error that is not retried
Interrupt_Absorbed ==
    /\ pc \in {"start_jobs", "call", "in_job", "delay"}
    /\ exit_cause' = "KeyboardInterrupt"
    /\ IF pc = "in_job" /\ jpc = "submit"
         THEN /\ outcomes' = Append(outcomes, "Unexpected")
              /\ submitted' = Append(submitted, job_name)
              /\ jpc' = "returned"
              /\ success' = "False"
              /\ UNCHANGED <<pc, exit_code>>
         ELSE /\ pc' = "exited"
              /\ exit_code' = 0
              /\ UNCHANGED <<jpc, success, outcomes, submitted>>
    /\ UNCHANGED <<config, i, successful_jobs, failed_jobs, delays, attempt,
                   job_name, uuids, sleeps, calls, returns>>
    /\ UNCHANGED monitor_vars

\* KeyboardInterrupt raised wherever the batch is (in a submission, a
\* backoff sleep, the inter-job delay or between them): no `except
\* Exception` catches it, `except KeyboardInterrupt` of __main__ calls
\* sys.exit(0)
Interrupt ==
    /\ pc \in {"start_jobs", "call", "in_job", "delay"}
    /\ pc' = "exited"
    /\ exit_code' = 0
    /\ exit_cause' = "KeyboardInterrupt"
    /\ UNCHANGED <<config, i, successful_jobs, failed_jobs, delays, jpc,
                   attempt, job_name, uuids, success, outcomes, submitted,
                   sleeps, calls, returns>>
    /\ UNCHANGED monitor_vars

\* start_jobs returns and the script ends: exit status 0
ProcessEnds ==
    /\ pc = "completed"
    /\ pc' = "exited"
    /\ exit_code' = 0
    /\ exit_cause' = "completed"
    /\ UNCHANGED <<config, i, successful_jobs, failed_jobs, delays, jpc,
                   attempt, job_name, uuids, success, outcomes, submitted,
                   sleeps, calls, returns>>
    /\ UNCHANGED monitor_vars

\* ====================================================================
\*   transcribe_concurrency_monitor.py
\* ====================================================================

MaxResults == 100

\* response.get("NextToken"): absent (None), an empty string, or a cursor
NoToken == "None"
EmptyToken == ""
Tokens == {NoToken, EmptyToken, "t1", "t2"}

\* variant of Truthy: tests `is not None`, so an empty string counts
Truthy_NotNone(tok) == tok # NoToken

\* `if next_token:` / `if not next_token:`
Truthy(tok) == tok # NoToken /\ tok # EmptyToken

\* len(response.get("CallAnalyticsJobSummaries", [])) of one page
PageCounts == {0, 1, MaxResults}

\* the error codes lambda_handler names
ClassifiedCodes == {"BadRequestException", "LimitExceededException",
                    "InternalFailureException", "ConflictException",
                    "ServiceUnavailableException"}

MonitorIdle ==
    /\ m_pc = "idle"
    /\ concurrent_jobs = 0
    /\ next_token = NoToken
    /\ requests = <<>>
    /\ responses = <<>>
    /\ published = <<>>
    /\ m_result = [kind |-> "none"]

\* lambda_handler, entry: concurrent_jobs = 0, next_token = None
MonitorEntry ==
    /\ m_pc = "list"
    /\ concurrent_jobs = 0
    /\ next_token = NoToken
    /\ requests = <<>>
    /\ responses = <<>>
    /\ published = <<>>
    /\ m_result = [kind |-> "none"]

\* the other program is not running
StarterIdle ==
    /\ config = [count |-> 0, max_retries |-> 0, base_delay |-> 4, max_delay |-> 8]
    /\ pc = "idle"
    /\ i = 0
    /\ successful_jobs = 0
    /\ failed_jobs = 0
    /\ delays = 0
    /\ jpc = "idle"
    /\ attempt = 0
    /\ job_name = 0
    /\ uuids = 0
    /\ success = "none"
    /\ outcomes = <<>>
    /\ submitted = <<>>
    /\ sleeps = <<>>
    /\ calls = 0
    /\ returns = <<>>
    /\ exit_code = -1
    /\ exit_cause = "none"

\* the request list_call_analytics_jobs(**params) of this iteration,
\* answered with r; NextToken is in params only if next_token is truthy
Listing(r) ==
    /\ m_pc = "list"
    /\ Len(requests) < MaxPages
    /\ requests' = Append(requests, IF Truthy(next_token) THEN next_token ELSE NoToken)
    /\ responses' = Append(responses, r)
    /\ UNCHANGED starter_vars

\* variant of ListPage: the count of the page replaces the total
ListPage_Overwrites ==
    \E n \in PageCounts, tok \in Tokens :
        /\ Listing([kind |-> "page", count |-> n, token |-> tok])
        /\ concurrent_jobs' = n
        /\ next_token' = tok
        /\ m_pc' = IF ~Truthy(tok) THEN "publish" ELSE "list"
        /\ UNCHANGED <<published, m_result>>

\* a page is returned: count it, keep its token, break when there is none
ListPage ==
    \E n \in PageCounts, tok \in Tokens :
        /\ Listing([kind |-> "page", count |-> n, token |-> tok])
        /\ concurrent_jobs' = concurrent_jobs + n
        /\ next_token' = tok
        /\ m_pc' = IF ~Truthy(tok) THEN "publish" ELSE "list"
        /\ UNCHANGED <<published, m_result>>

\* variant of ListClassifiedError: the error is re-raised
ListClassifiedError_Raises ==
    \E code \in ClassifiedCodes :
        /\ Listing([kind |-> "error", code |-> code])
        /\ m_pc' = "done"
        /\ m_result' = [kind |-> "raised"]
        /\ UNCHANGED <<concurrent_jobs, next_token, published>>

\* ClientError with one of the named codes: print and break
ListClassifiedError ==
    \E code \in ClassifiedCodes :
        /\ Listing([kind |-> "error", code |-> code])
        /\ m_pc' = "publish"
        /\ UNCHANGED <<concurrent_jobs, next_token, published, m_result>>

\* variant of ListUnclassifiedError: the error ends the loop like a named one
ListUnclassifiedError_Breaks ==
    /\ Listing([kind |-> "error", code |-> "OtherClientError"])
    /\ m_pc' = "publish"
    /\ UNCHANGED <<concurrent_jobs, next_token, published, m_result>>

\* ClientError with any other code: re-raised, then re-raised by the
\* outer `except Exception`
ListUnclassifiedError ==
    /\ Listing([kind |-> "error", code |-> "OtherClientError"])
    /\ m_pc' = "done"
    /\ m_result' = [kind |-> "raised"]
    /\ UNCHANGED <<concurrent_jobs, next_token, published>>

\* an exception that is no ClientError: not caught by the inner handler,
\* re-raised by the outer `except Exception`
ListOtherException ==
    /\ Listing([kind |-> "exception"])
    /\ m_pc' = "done"
    /\ m_result' = [kind |-> "raised"]
    /\ UNCHANGED <<concurrent_jobs, next_token, published>>

\* the call put_metric_data(Value=concurrent_jobs, ...), which ends as o
Publishing(o) ==
    /\ m_pc = "publish"
    /\ published' = Append(published, [Value |-> concurrent_jobs, outcome |-> o])
    /\ m_pc' = "done"
    /\ UNCHANGED <<concurrent_jobs, next_token, requests, responses>>
    /\ UNCHANGED starter_vars

\* put_metric_data succeeds: return statusCode 200 and the count in the body
PublishOk ==
    /\ Publishing("ok")
    /\ m_result' = [kind |-> "returned", count |-> concurrent_jobs]

\* variant of PublishClientError: the error is not swallowed
PublishClientError_Raises ==
    /\ Publishing("ClientError")
    /\ m_result' = [kind |-> "raised"]

\* put_metric_data raises ClientError: printed, the count is still returned
PublishClientError ==
    /\ Publishing("ClientError")
    /\ m_result' = [kind |-> "returned", count |-> concurrent_jobs]

\* put_metric_data raises anything else: re-raised by the outer handler
PublishOtherException ==
    /\ Publishing("exception")
    /\ m_result' = [kind |-> "raised"]

\* ====================================================================
\*   calculate_backoff_with_jitter on its own
\* ====================================================================

\* arguments of one call calculate_backoff_with_jitter(attempt, base_delay,
\* max_delay): attempt >= 0 and positive delays
BackoffEntry ==
    /\ config \in [count: {0}, max_retries: {0},
                   base_delay: 1..BaseDelayBound, max_delay: 1..MaxDelayBound]
    /\ attempt \in 0..AttemptBound
    /\ pc = "backoff_call"
    /\ i = 0
    /\ successful_jobs = 0
    /\ failed_jobs = 0
    /\ delays = 0
    /\ jpc = "idle"
    /\ job_name = 0
    /\ uuids = 0
    /\ success = "none"
    /\ outcomes = <<>>
    /\ submitted = <<>>
    /\ sleeps = <<>>
    /\ calls = 0
    /\ returns = <<>>
    /\ exit_code = -1
    /\ exit_cause = "none"

\* the call returns backoff + jitter; the value is kept in sleeps
ComputeBackoff ==
    /\ pc = "backoff_call"
    /\ pc' = "backoff_done"
    /\ \E backoff \in calculate_backoff_with_jitter(
              attempt, config.base_delay, config.max_delay) :
          sleeps' = <<backoff>>
    /\ UNCHANGED <<config, i, successful_jobs, failed_jobs, delays, jpc,
                   attempt, job_name, uuids, success, outcomes, submitted,
                   calls, returns, exit_vars>>
    /\ UNCHANGED monitor_vars

\* ====================================================================
\*   specifications
\* ====================================================================
NextStarter ==
    \/ StartJobs
    \/ CallStartJobWithRetry
    \/ SubmitSuccess
    \/ SubmitBadRequest
    \/ SubmitLimitExceeded
    \/ SubmitConflict
    \/ SubmitInternalOrUnavailable
    \/ SubmitUnexpected
    \/ BackoffElapsed
    \/ JobReturned
    \/ DelayElapsed
    \/ CreateClientFails
    \/ Interrupt
    \/ ProcessEnds

InitStarter == StarterEntry /\ MonitorIdle

SpecStarter == InitStarter /\ [][NextStarter]_vars

NextMonitor ==
    \/ ListPage
    \/ ListClassifiedError
    \/ ListUnclassifiedError
    \/ ListOtherException
    \/ PublishOk
    \/ PublishClientError
    \/ PublishOtherException

InitMonitor == MonitorEntry /\ StarterIdle

SpecMonitor == InitMonitor /\ [][NextMonitor]_vars

\* a step of start_job_with_retry: the service answers the submission,
\* or time.sleep returns
JobStep ==
    \/ SubmitSuccess
    \/ SubmitBadRequest
    \/ SubmitLimitExceeded
    \/ SubmitConflict
    \/ SubmitInternalOrUnavailable
    \/ SubmitUnexpected
    \/ BackoffElapsed

\* a batch of one job with a retry budget that outlasts the growth of the
\* backoff: with base_delay 1.0s and max_delay 2.0s the delay is capped
\* from the second retry on
InitLongJob ==
    /\ StarterStart
    /\ config = [count |-> 1, max_retries |-> LongRetries,
                 base_delay |-> 4, max_delay |-> 8]
    /\ MonitorIdle

SpecLongJob == InitLongJob /\ [][NextStarter]_vars

\* a batch of one job
InitOneJob == InitStarter /\ config.count = 1

\* every submission is answered and every sleep ends
SpecStarterFair == InitOneJob /\ [][NextStarter]_vars /\ WF_vars(JobStep)

NextBackoff ==
    \/ ComputeBackoff

InitBackoff == BackoffEntry /\ MonitorIdle

SpecBackoff == InitBackoff /\ [][NextBackoff]_vars

\* ====================================================================
\*   properties of start_job_with_retry
\* ====================================================================
TransientKinds == {"LimitExceeded", "InternalFailure", "ServiceUnavailable"}
BackoffKinds == TransientKinds \cup {"Unexpected"}

\* number of positions 1..n of s holding an element of S
CountIn(s, S, n) == Cardinality({k \in 1..n : s[k] \in S})

AllIn(s, S) == \A k \in 1..Len(s) : s[k] \in S

\* C1: a NameConflict outcome never increments the attempt counter: the
\* counter used for the next submission is the number of backoff retries
\* made so far, whatever the number of conflicts, and three conflicts
\* followed by a success return success with the counter still at 0.
C1_ConflictKeepsAttempt ==
    /\ jpc = "submit" =>
          attempt = CountIn(outcomes, BackoffKinds, Len(outcomes))
    /\ outcomes = <<"Conflict", "Conflict", "Conflict", "Success">> =>
          success = "True" /\ attempt = 0

\* C2: with max_retries >= 0, failure is returned only right after a
\* BadRequest outcome or after a Transient/Unknown outcome received with
\* the attempt counter at max_retries; never after a NameConflict.
C2_FailureOnlyOnRejectOrBudget ==
    (pc = "in_job" /\ jpc = "returned" /\ success = "False"
        /\ config.max_retries >= 0) =>
        /\ outcomes # <<>>
        /\ \/ Last(outcomes) = "BadRequest"
           \/ /\ Last(outcomes) \in BackoffKinds
              /\ attempt = config.max_retries

\* C3: when every submission of a job yields a transient service error,
\* an invocation with max_retries = m >= 0 makes at most m + 1 submissions
\* and when it returns it has made exactly m + 1 submissions and m backoff
\* sleeps, and returns failure.
C3_AllTransientExactBudget ==
    (pc = "in_job" /\ config.max_retries >= 0
        /\ AllIn(outcomes, TransientKinds)) =>
        /\ Len(submitted) <= config.max_retries + 1
        /\ Len(sleeps) <= config.max_retries
        /\ jpc = "returned" =>
              /\ Len(submitted) = config.max_retries + 1
              /\ Len(sleeps) = config.max_retries
              /\ success = "False"

C3_Witness ==
    /\ pc = "in_job" /\ jpc = "returned"
    /\ config.max_retries = 2
    /\ Len(outcomes) = 3 /\ AllIn(outcomes, TransientKinds)
    /\ Len(submitted) = 3 /\ Len(sleeps) = 2
    /\ success = "False"

Max(a, b) == IF a > b THEN a ELSE b

\* C4 as stated: in every state of an invocation the number of backoff
\* retries charged for Transient/Unknown errors is at most max_retries.
C4_RetriesWithinMaxRetries ==
    pc = "in_job" => Len(sleeps) <= config.max_retries

\* C4, amended: in every state of an invocation, for any interleaving of
\* outcome kinds, the number of backoff retries charged for
\* Transient/Unknown errors is at most max(max_retries, 0), and every one
\* of them was charged for a Transient/Unknown outcome.
C4_RetriesWithinBudget ==
    pc = "in_job" =>
        /\ Len(sleeps) <= Max(config.max_retries, 0)
        /\ Len(sleeps) <= CountIn(outcomes, BackoffKinds, Len(outcomes))

C4_Witness ==
    /\ pc = "in_job"
    /\ config.max_retries = 2
    /\ Len(sleeps) = 2
    /\ \E k \in 1..Len(outcomes) : outcomes[k] = "Unexpected"
    /\ \E k \in 1..Len(outcomes) : outcomes[k] \in TransientKinds

\* C5: a BadRequest outcome ends the invocation with failure at once: it
\* is the last submission, no backoff sleep follows it (the sleeps made
\* are those of the retried outcomes before it), and on the first attempt
\* there is exactly one submission and no retry.
C5_BadRequestAbandonsAtOnce ==
    \A k \in 1..Len(outcomes) :
        outcomes[k] = "BadRequest" =>
            /\ k = Len(outcomes)
            /\ Len(submitted) = k
            /\ jpc \in {"returned", "idle"}
            /\ success = "False"
            /\ Len(sleeps) = CountIn(outcomes, BackoffKinds, k - 1)
            /\ k = 1 => sleeps = <<>>

C5_Witness ==
    /\ Len(outcomes) = 3
    /\ outcomes[3] = "BadRequest"
    /\ outcomes[1] \in TransientKinds
    /\ Len(sleeps) = 1
    /\ success = "False"
    /\ pc = "delay"

\* C6: an error of no recognized kind is handled like a transient one:
\* received with the attempt counter below max_retries it is followed by
\* a backoff sleep of calculate_backoff_with_jitter(attempt, ...) and then
\* by another submission; it ends the invocation with failure only when
\* the attempt counter has reached max_retries.
C6_UnknownIsRetried ==
    [][ /\ (Len(outcomes') = Len(outcomes) + 1
               /\ Last(outcomes') = "Unexpected") =>
            IF attempt < config.max_retries
              THEN /\ jpc' = "backoff"
                   /\ success' = "none"
                   /\ \E w \in calculate_backoff_with_jitter(
                              attempt, config.base_delay, config.max_delay) :
                          sleeps' = Append(sleeps, w)
              ELSE /\ jpc' = "returned"
                   /\ success' = "False"
                   /\ sleeps' = sleeps
        /\ (jpc = "backoff" /\ jpc' # "backoff") =>
              /\ jpc' = "submit"
              /\ attempt' = attempt + 1 ]_vars

C6_Witness ==
    /\ Len(outcomes) = 2
    /\ outcomes[1] = "Unexpected"
    /\ outcomes[2] = "Success"
    /\ Len(sleeps) = 1
    /\ success = "True"

\* ====================================================================
\*   properties of lambda_handler
\* ====================================================================
IsPage(r) == r.kind = "page"
IsClassifiedError(r) == r.kind = "error" /\ r.code \in ClassifiedCodes
IsUnexpectedFailure(r) == ~IsPage(r) /\ ~IsClassifiedError(r)

\* a continuation token that is present and not empty
NonEmptyToken(tok) == tok \in Tokens \ {NoToken, EmptyToken}

\* sum of the summary counts of the pages among the first n responses
RECURSIVE SumPages(_, _)
SumPages(rs, n) ==
    IF n = 0 THEN 0
    ELSE SumPages(rs, n - 1) + (IF IsPage(rs[n]) THEN rs[n].count ELSE 0)

\* C7: when every listing request returns a page, the count is the sum of
\* the per-page counts of the pages requested, the first request carries
\* no token, every later request carries exactly the non-empty token of
\* the page before it, and the handler goes on to another request exactly
\* when the last page returned a non-empty token.
C7_PaginationSumsPages ==
    (\A k \in 1..Len(responses) : IsPage(responses[k])) =>
        /\ Len(requests) = Len(responses)
        /\ concurrent_jobs = SumPages(responses, Len(responses))
        /\ requests # <<>> => requests[1] = NoToken
        /\ \A k \in 2..Len(requests) :
              /\ NonEmptyToken(responses[k - 1].token)
              /\ requests[k] = responses[k - 1].token
        /\ responses # <<>> =>
              /\ m_pc = "list" <=> NonEmptyToken(Last(responses).token)
              /\ m_pc = "list" => next_token = Last(responses).token
        /\ m_result.kind = "returned" =>
              m_result.count = SumPages(responses, Len(responses))

C7_Witness ==
    /\ Len(responses) = 3
    /\ \A k \in 1..3 : IsPage(responses[k])
    /\ requests = <<NoToken, "t1", "t2">>
    /\ Last(responses).token = EmptyToken
    /\ m_result = [kind |-> "returned", count |-> 2 * MaxResults + 1]

\* C8: when the listing request after N >= 0 pages fails with one of the
\* named error codes, the handler stops paginating without raising, and
\* publishes and (the publish call not raising an unexpected exception)
\* returns the sum of the counts of the first N pages.
C8_ClassifiedErrorGivesPartialCount ==
    (responses # <<>> /\ IsClassifiedError(Last(responses))) =>
        LET partial == SumPages(responses, Len(responses) - 1) IN
        /\ \A k \in 1..(Len(responses) - 1) : IsPage(responses[k])
        /\ m_pc \in {"publish", "done"}
        /\ concurrent_jobs = partial
        /\ m_pc = "done" =>
              /\ Len(published) = 1
              /\ published[1].Value = partial
              /\ published[1].outcome # "exception" =>
                    m_result = [kind |-> "returned", count |-> partial]

C8_Witness ==
    /\ Len(responses) = 3
    /\ responses[1].count = MaxResults
    /\ responses[2].count = MaxResults
    /\ IsClassifiedError(responses[3])
    /\ Len(published) = 1
    /\ published[1].Value = 200
    /\ m_result = [kind |-> "returned", count |-> 200]

\* C9 as stated: when the very first listing request fails, the handler
\* fails with an error instead of returning a count.
C9_FirstListingFailureRaises ==
    (responses # <<>> /\ ~IsPage(responses[1])) =>
        /\ m_pc = "done"
        /\ m_result.kind = "raised"

\* C9, amended: when the very first listing request fails with an error
\* that has none of the five named codes (a ClientError with another code,
\* or an exception that is not a ClientError), the handler re-raises it
\* and neither publishes nor returns a count; when it fails with one of
\* the named codes the handler does not fail on it: it publishes 0 and
\* (the publish call not raising an unexpected exception) returns 0.
C9_FirstListingFailure ==
    (responses # <<>> /\ ~IsPage(responses[1])) =>
        /\ Len(responses) = 1
        /\ IsUnexpectedFailure(responses[1]) =>
              /\ m_pc = "done"
              /\ m_result.kind = "raised"
              /\ published = <<>>
        /\ IsClassifiedError(responses[1]) =>
              /\ m_pc \in {"publish", "done"}
              /\ concurrent_jobs = 0
              /\ m_pc = "done" =>
                    /\ Len(published) = 1
                    /\ published[1].Value = 0
                    /\ published[1].outcome # "exception" =>
                          m_result = [kind |-> "returned", count |-> 0]

C9_Witness ==
    /\ Len(responses) = 1
    /\ responses[1] = [kind |-> "error", code |-> "OtherClientError"]
    /\ m_pc = "done"
    /\ m_result.kind = "raised"
    /\ published = <<>>

\* C10 as stated: every invocation makes exactly one publish call,
\* whatever the listing pages and errors were, with the accumulated count.
C10_ExactlyOnePublish ==
    m_pc = "done" =>
        /\ Len(published) = 1
        /\ published[1].Value = SumPages(responses, Len(responses))

\* C10, amended: every invocation makes at most one publish call; it makes
\* exactly one, whose value is the accumulated count (the sum of the
\* counts of the pages received), when the listing ends with a page
\* without token or with an error of a named code, and none when a
\* listing request fails with any other error, which the handler
\* re-raises before publishing.
C10_OnePublishUnlessListingRaises ==
    /\ Len(published) <= 1
    /\ published # <<>> => m_pc = "done"
    /\ m_pc = "done" =>
          /\ Len(published) = 1 <=> ~IsUnexpectedFailure(Last(responses))
          /\ published # <<>> =>
                /\ published[1].Value = SumPages(responses, Len(responses))
                /\ published[1].Value = concurrent_jobs

C10_Witness ==
    /\ m_pc = "done"
    /\ Len(responses) = 2
    /\ IsPage(responses[1]) /\ IsPage(responses[2])
    /\ responses[1].count = 1 /\ responses[2].count = MaxResults
    /\ published = <<[Value |-> MaxResults + 1, outcome |-> "ok"]>>

\* C11 as stated: no listing failure and no publishing failure ever makes
\* the handler terminate with an error.
C11_NeverRaises ==
    m_result.kind # "raised"

\* C11, amended: a listing failure with one of the five named codes
\* degrades to the partial count and a ClientError of the publish call is
\* swallowed, the handler then returning its normal result with the
\* count; the handler terminates with an error exactly when a listing
\* request fails with any other error or the publish call raises an
\* exception that is not a ClientError.
C11_RaisesOnlyOnUnexpected ==
    /\ m_result.kind = "raised" <=>
          \/ responses # <<>> /\ IsUnexpectedFailure(Last(responses))
          \/ published # <<>> /\ published[1].outcome = "exception"
    /\ (published # <<>> /\ published[1].outcome \in {"ok", "ClientError"}) =>
          m_result = [kind |-> "returned",
                      count |-> SumPages(responses, Len(responses))]

C11_Witness ==
    /\ Len(responses) = 2
    /\ IsPage(responses[1]) /\ responses[1].count = 1
    /\ IsClassifiedError(responses[2])
    /\ published = <<[Value |-> 1, outcome |-> "ClientError"]>>
    /\ m_result = [kind |-> "returned", count |-> 1]

\* ====================================================================
\*   properties of start_jobs and of the process
\* ====================================================================

\* C12: start_jobs invokes start_job_with_retry one invocation at a time
\* and never more than count times; the two counters count the
\* invocations that returned success and those that returned failure; a
\* failure does not stop the batch, and when the batch completes there
\* have been exactly count invocations and successful_jobs + failed_jobs
\* = count.
C12_BatchCountsEveryJob ==
    /\ calls <= config.count
    /\ Len(returns) <= calls
    /\ calls <= Len(returns) + 1
    /\ (pc = "in_job" /\ jpc # "idle") => calls = Len(returns) + 1
    /\ successful_jobs = CountIn(returns, {"True"}, Len(returns))
    /\ failed_jobs = CountIn(returns, {"False"}, Len(returns))
    /\ (pc = "completed" \/ exit_cause = "completed") =>
          /\ calls = config.count
          /\ Len(returns) = config.count
          /\ successful_jobs + failed_jobs = config.count

C12_Witness ==
    /\ pc = "completed"
    /\ config.count = 2
    /\ config.max_retries = 1
    /\ returns = <<"False", "True">>
    /\ successful_jobs = 1
    /\ failed_jobs = 1
    /\ calls = 2

\* C13: a user interrupt, wherever it arrives, is not taken by the retry
\* loop as an error of a submission (no outcome is recorded, no backoff
\* sleep is made for it): it ends the process at once with exit code 0 and
\* nothing is submitted afterwards; an error escaping start_jobs ends the
\* process with exit code 1.
C13_InterruptExitsCleanly ==
    /\ [](/\ pc = "exited" <=> exit_cause # "none"
          /\ pc = "exited" <=> exit_code # -1
          /\ exit_cause \in {"KeyboardInterrupt", "completed"} => exit_code = 0
          /\ exit_cause = "Exception" => exit_code = 1)
    /\ [][ /\ (exit_cause = "none" /\ exit_cause' = "KeyboardInterrupt") =>
                /\ pc' = "exited"
                /\ exit_code' = 0
                /\ UNCHANGED <<outcomes, submitted, sleeps, jpc, attempt,
                               successful_jobs, failed_jobs, calls>>
           /\ pc = "exited" => UNCHANGED vars ]_vars

C13_Witness ==
    /\ pc = "exited"
    /\ exit_cause = "KeyboardInterrupt"
    /\ exit_code = 0
    /\ jpc = "backoff"
    /\ Len(sleeps) = 2
    /\ Len(submitted) = 2
    /\ calls = 2

\* ====================================================================
\*   properties of calculate_backoff_with_jitter
\* ====================================================================

\* C14: for every attempt a >= 0, base_delay > 0, max_delay > 0 and every
\* jitter draw, the wait w returned satisfies d <= w <= 1.25 * d with
\* d = min(base_delay * 2^a, max_delay); hence w is at most
\* 1.25 * max_delay and at least the capped exponential delay.
C14_BackoffWithinJitterBand ==
    pc = "backoff_done" =>
        LET w == sleeps[1]
            e == config.base_delay * (2 ^ attempt)
            d == IF e <= config.max_delay THEN e ELSE config.max_delay
        IN  /\ d <= w
            /\ 4 * w <= 5 * d
            /\ 4 * w <= 5 * config.max_delay

C14_Witness ==
    /\ pc = "backoff_done"
    /\ attempt = 2
    /\ config.base_delay = 4
    /\ config.max_delay = 8
    /\ sleeps = <<10>>

\* ====================================================================
\*   properties of the backoff waits of start_job_with_retry
\* ====================================================================

\* C15 as stated: in an invocation whose outcomes are all transient, the
\* waits slept before successive retries are non-decreasing and each is at
\* most 1.25 * max_delay.
C15_WaitsNonDecreasing ==
    (pc = "in_job" /\ AllIn(outcomes, TransientKinds)) =>
        /\ \A k \in 1..Len(sleeps) : 4 * sleeps[k] <= 5 * config.max_delay
        /\ \A k \in 1..(Len(sleeps) - 1) : sleeps[k] <= sleeps[k + 1]

\* C15, amended: in an invocation whose outcomes are all transient, the
\* k-th wait lies between the capped delay d = min(base_delay * 2^(k-1),
\* max_delay) and 1.25 * d, so each wait is at most 1.25 * max_delay and
\* the capped delays are non-decreasing; the waits themselves can
\* decrease where the cap holds the delay back, but a wait is never below
\* 4/5 of the wait before it.
C15_WaitsWithinBand ==
    (pc = "in_job" /\ AllIn(outcomes, TransientKinds)) =>
        /\ \A k \in 1..Len(sleeps) :
              LET e == config.base_delay * (2 ^ (k - 1))
                  d == IF e <= config.max_delay THEN e ELSE config.max_delay
              IN  /\ d <= sleeps[k]
                  /\ 4 * sleeps[k] <= 5 * d
                  /\ 4 * sleeps[k] <= 5 * config.max_delay
        /\ \A k \in 1..(Len(sleeps) - 1) : 4 * sleeps[k] <= 5 * sleeps[k + 1]

C15_Witness ==
    /\ pc = "in_job"
    /\ config.max_retries = LongRetries
    /\ Len(outcomes) = 3
    /\ AllIn(outcomes, TransientKinds)
    /\ sleeps = <<5, 10, 8>>

\* C16: the exponent given to the backoff computation for a
\* Transient/Unknown outcome is the number of backoff retries already
\* made for this job, whatever the number of NameConflict outcomes before
\* it: the k-th wait is a value of calculate_backoff_with_jitter(k - 1).
C16_ExponentIsRetryCount ==
    \A k \in 1..Len(sleeps) :
        sleeps[k] \in calculate_backoff_with_jitter(
                          k - 1, config.base_delay, config.max_delay)

\* C17: start_jobs makes the inter-job delay exactly once after every
\* invocation that returned, success or failure, the last one included
\* (count delays when the batch completes), and none before the first
\* invocation or while an invocation runs.
C17_OneDelayAfterEachJob ==
    /\ delays = Len(returns)
    /\ calls = 0 => delays = 0
    /\ (pc = "in_job" /\ jpc # "idle") => delays = calls - 1
    /\ pc = "delay" => delays = calls
    /\ (pc = "completed" \/ exit_cause = "completed") => delays = config.count

C17_Witness ==
    /\ pc = "completed"
    /\ config.count = 2
    /\ returns = <<"True", "False">>
    /\ delays = 2

\* ====================================================================
\*   further properties of start_job_with_retry
\* ====================================================================

\* C18: within one invocation the submitted name changes exactly when the
\* previous outcome was NameConflict, and then to a name different from
\* every name submitted before; a retry after a Transient/Unknown outcome
\* submits the unchanged name.
C18_NameChangesOnConflictOnly ==
    /\ Len(submitted) = Len(outcomes)
    /\ \A k \in 2..Len(submitted) :
          IF outcomes[k - 1] = "Conflict"
            THEN \A j \in 1..(k - 1) : submitted[j] # submitted[k]
            ELSE /\ outcomes[k - 1] \in BackoffKinds
                 /\ submitted[k] = submitted[k - 1]
    /\ jpc = "submit" => (outcomes # <<>> /\ Last(outcomes) = "Conflict"
                            => \A j \in 1..Len(submitted) : submitted[j] # job_name)

C18_Witness ==
    /\ outcomes = <<"Conflict", "LimitExceeded", "Success">>
    /\ submitted[1] # submitted[2]
    /\ submitted[2] = submitted[3]

\* C19: a backoff sleep is made only on a Transient/Unknown outcome that
\* is retried, and is followed by the next submission; the retry after a
\* NameConflict is immediate, and no sleep is made after a success, after
\* a BadRequest outcome or after the Transient/Unknown outcome on which
\* the invocation gives up.
C19_SleepOnlyBeforeBackoffRetry ==
    [][ /\ (pc = "in_job" /\ sleeps' # sleeps) =>
              /\ Len(outcomes') = Len(outcomes) + 1
              /\ Last(outcomes') \in BackoffKinds
              /\ Len(sleeps') = Len(sleeps) + 1
              /\ jpc' = "backoff"
        /\ (jpc = "backoff" /\ jpc' # "backoff") =>
              /\ jpc' = "submit"
              /\ sleeps' = sleeps
              /\ outcomes' = outcomes
        /\ (pc = "in_job" /\ Len(outcomes') = Len(outcomes) + 1
               /\ Last(outcomes') \in {"Conflict", "Success", "BadRequest"}) =>
              /\ sleeps' = sleeps
              /\ jpc' \in {"submit", "returned"}
        /\ (pc = "in_job" /\ jpc # "returned" /\ jpc' = "returned") =>
              sleeps' = sleeps ]_vars

C19_Witness ==
    /\ config.max_retries = 2
    /\ outcomes = <<"Conflict", "LimitExceeded", "Unexpected">>
    /\ Len(sleeps) = 1
    /\ jpc = "returned"
    /\ success = "False"

====
